---- MODULE Spec2Model ----
(***************************************************************************)
(* Sql2GraphQL: the schema compiler (src/src/graphql/compiler.js) and the  *)
(* resolver registry (src/unnamed/part_000, class Resolver).               *)
(*                                                                         *)
(* Text that the program scans character by character (filter and          *)
(* pagination expressions) is a sequence of tokens: every operator         *)
(* character, ';' and ' ' is a token of its own, and a run of other        *)
(* characters (a column name, a number) is one token.  Names that the      *)
(* program only concatenates and compares are TLA+ strings.                *)
(***************************************************************************)
EXTENDS Integers, Sequences, FiniteSets, TLC

\* Longest filter expression (in tokens) handed to parseFilterExpression.
MaxExprLen == 4

\* The addType and addInput calls of one run of the compiler.
MaxInjected == 1

VARIABLES
    fexpr,      \* the expression of the last parseFilterExpression call
    fres,       \* what that call returned (or that it threw)
    dbSchema,   \* the driver's metadata: dbDriver.dbSchema / Compiler.dbSchema
    resolvers,  \* Resolver.resolvers: namespace -> name -> resolver function
    beforeHook, \* Resolver.beforeHook: {validator, rejected}
    returned,   \* getResolvers() has handed the map to its caller
    manual,     \* per key, the handler of the caller's last add(), if any
    inv,        \* the last invocation of a resolver of the map: key and arguments
    calls,      \* the calls that invocation made, in order
    ret,        \* what that invocation returned or threw
    schema,     \* Compiler.schema: { type, input }
    sdl,        \* Compiler.sdl: the cached text
    last,       \* the operation that changed Compiler.schema last
    phase,      \* "fresh", "fullBuilt" (only full builds so far) or "other"
    pending,    \* the addType call no getSDL call has followed yet
    shown,      \* the last getSDL call: its argument and the text it returned
    injected,   \* the addType and addInput calls so far
    before,     \* when the last build repeated the build of one table: the model before it
    tasks,      \* the microtask queue: the continuations of the calls not awaited
    render      \* the getSDL call in progress: its loop position and its items

pvars == <<fexpr, fres>>
rvars == <<resolvers, beforeHook, returned, manual, inv, calls, ret>>
cvars == <<schema, sdl, last, phase, pending, shown, injected, before, tasks, render>>
vars  == <<pvars, dbSchema, rvars, cvars>>

----------------------------------------------------------------------------
(* Sequences of tokens *)

\* s[i..j], empty when j < i
Slice(s, i, j) == IF j < i THEN <<>> ELSE SubSeq(s, i, j)

\* sep occurs in s at position i
MatchAt(s, sep, i) ==
    /\ i >= 1
    /\ i + Len(sep) - 1 <= Len(s)
    /\ \A k \in 1..Len(sep) : s[i + k - 1] = sep[k]

\* The least element of a set of positions, 0 when it is empty
First(S) == IF S = {} THEN 0 ELSE CHOOSE i \in S : \A j \in S : i <= j

\* String.prototype.indexOf: the first position of sep in s, 0 when there is none
IndexOf(s, sep) == First({i \in 1..Len(s) : MatchAt(s, sep, i)})

\* String.prototype.split with a non-empty separator: s is cut at EVERY
\* occurrence of sep (scanning left to right, occurrences do not overlap).
\* SplitAt: the pieces of s, whose first occurrence of sep is at i (0: none)
RECURSIVE Split(_, _), SplitAt(_, _, _)
SplitAt(s, sep, i) ==
    IF i = 0
    THEN <<s>>
    ELSE <<Slice(s, 1, i - 1)>> \o Split(Slice(s, i + Len(sep), Len(s)), sep)

Split(s, sep) == SplitAt(s, sep, IndexOf(s, sep))

\* String.prototype.trim
RECURSIVE Trim(_)
Trim(s) ==
    IF s = <<>> THEN s
    ELSE IF Head(s) = " " THEN Trim(Tail(s))
    ELSE IF s[Len(s)] = " " THEN Trim(Slice(s, 1, Len(s) - 1))
    ELSE s

----------------------------------------------------------------------------
(* Resolver.parseFilterExpression *)

\* The alternatives of /<=>|>=|<=|=|>|<|~|#/ in the order the regex tries them
FilterOps ==
    << <<"<", "=", ">">>, <<">", "=">>, <<"<", "=">>, <<"=">>,
       <<">">>, <<"<">>, <<"~">>, <<"#">> >>

\* The alternative the regex matches at position i (the first that fits), 0 if none
AltAt(s, i) == First({k \in 1..Len(FilterOps) : MatchAt(s, FilterOps[k], i)})

\* The match at position i; <<>> stands for null (i = 0: no position matches)
MatchedAt(s, i) == IF i = 0 THEN <<>> ELSE FilterOps[AltAt(s, i)]

\* RegExp.prototype.exec: the match at the leftmost position where an
\* alternative fits
RegexExec(s) == MatchedAt(s, First({i \in 1..Len(s) : AltAt(s, i) # 0}))

\* condition.map((c) => c.trim())
TrimAll(condition) == [k \in 1..Len(condition) |-> Trim(condition[k])]

\* The condition pushed for clause f1 whose match is op: f1.split(op) with op
\* put in front, all trimmed; <<>> when exec found nothing (the clause throws)
Condition(f1, op) ==
    IF op = <<>> THEN <<>> ELSE TrimAll(<<op>> \o Split(f1, op))

ParseClause(f1) == Condition(f1, RegexExec(f1))

\* where.split(';').map(...)
ParseClauses(clauses) == [k \in 1..Len(clauses) |-> ParseClause(clauses[k])]

\* The filter returned, or threw = TRUE for 'Filter operation not suported'
FilterOf(tablename, conds) ==
    IF \E k \in 1..Len(conds) : conds[k] = <<>>
    THEN [threw |-> TRUE, table |-> tablename, conds |-> <<>>]
    ELSE [threw |-> FALSE, table |-> tablename, conds |-> conds]

parseFilterExpression(filterExpr, tablename) ==
    FilterOf(tablename, ParseClauses(Split(filterExpr, <<";">>)))

----------------------------------------------------------------------------
(* JavaScript values and objects *)

Undefined == [t |-> "undefined", n |-> 0, s |-> <<>>]
Null      == [t |-> "null", n |-> 0, s |-> <<>>]
Num(k)    == [t |-> "number", n |-> k, s |-> <<>>]
Str(x)    == [t |-> "string", n |-> 0, s |-> x]
Bool(b)   == [t |-> "boolean", n |-> IF b THEN 1 ELSE 0, s |-> <<>>]

\* ToBoolean: what `if (v)` and `!v` test
Truthy(v) ==
    CASE v.t = "undefined" -> FALSE
      [] v.t = "null"      -> FALSE
      [] v.t = "number"    -> v.n # 0
      [] v.t = "string"    -> v.s # <<>>
      [] v.t = "boolean"   -> v.n = 1

\* ToString, as string concatenation applies it
ToStr(v) ==
    CASE v.t = "undefined" -> <<"undefined">>
      [] v.t = "null"      -> <<"null">>
      [] v.t = "number"    -> <<ToString(v.n)>>
      [] v.t = "string"    -> v.s
      [] v.t = "boolean"   -> IF v.n = 1 THEN <<"true">> ELSE <<"false">>

\* An object is the sequence of its own properties [k, v] in insertion order
Has(obj, key) == \E i \in 1..Len(obj) : obj[i].k = key

IndexOfKey(obj, key) == CHOOSE i \in 1..Len(obj) : obj[i].k = key

\* obj[key], for a key the object has
Get(obj, key) == obj[IndexOfKey(obj, key)].v

\* obj[key] = val: an existing key keeps its place, a new key goes last
Put(obj, key, val) ==
    IF Has(obj, key)
    THEN [obj EXCEPT ![IndexOfKey(obj, key)] = [k |-> key, v |-> val]]
    ELSE Append(obj, [k |-> key, v |-> val])

\* Object.keys(obj)
Keys(obj) == [i \in 1..Len(obj) |-> obj[i].k]

\* item[column] of a record: undefined for a property it does not have
Prop(obj, key) == IF Has(obj, key) THEN Get(obj, key) ELSE Undefined

----------------------------------------------------------------------------
(* The driver's metadata *)

NoForeign == [tablename |-> "", columnname |-> ""]

Column(name, native, foreign) ==
    [name |-> name, native |-> native, foreign |-> foreign]

Fk(tablename, columnname) == [tablename |-> tablename, columnname |-> columnname]

Reverse(ftablename, fcolumnname, columnname) ==
    [ftablename |-> ftablename, fcolumnname |-> fcolumnname, columnname |-> columnname]

TableFoo(reverse) ==
    [name |-> "foo", pk |-> "id", reverse |-> reverse,
     columns |-> << Column("id", "serial", NoForeign),
                    Column("name", "boolean", NoForeign) >>]

TableBar ==
    [name |-> "bar", pk |-> "id", reverse |-> <<>>,
     columns |-> << Column("id", "serial", NoForeign),
                    Column("foo_id", "integer", Fk("foo", "id")) >>]

\* A table that references itself and has a column of a type the driver cannot map
TableNode ==
    [name |-> "tree_node", pk |-> "id",
     reverse |-> << Reverse("tree_node", "parent_id", "id") >>,
     columns |-> << Column("id", "serial", NoForeign),
                    Column("shape", "geometry", NoForeign),
                    Column("parent_id", "integer", Fk("tree_node", "id")) >>]

\* The database schemas the model runs on, each the list of its tables in
\* the driver's key order
DbSchemas ==
    { << TableFoo(<< Reverse("bar", "foo_id", "id") >>), TableBar >>,
      << TableBar, TableFoo(<< Reverse("bar", "foo_id", "id") >>) >>,
      << TableNode >>,
      << TableNode, TableFoo(<<>>) >> }

\* dbSchema[tablename]
TableOf(db, tablename) ==
    db[CHOOSE i \in 1..Len(db) : db[i].name = tablename]

\* dbSchema[tablename][c]
ColumnOf(db, tablename, c) ==
    LET cols == TableOf(db, tablename).columns
    IN  cols[CHOOSE i \in 1..Len(cols) : cols[i].name = c]

\* dbDriver.getTablesFromSchema()
getTablesFromSchema(db) == [i \in 1..Len(db) |-> db[i].name]

\* dbDriver.getTableColumnsFromSchema(tablename)
getTableColumnsFromSchema(db, tablename) ==
    LET cols == TableOf(db, tablename).columns
    IN  [i \in 1..Len(cols) |-> cols[i].name]

\* dbDriver.getPrimaryKeyFromSchema(tablename)
getPrimaryKeyFromSchema(db, tablename) == TableOf(db, tablename).pk

\* utils.toCamelCase(tablename)
toCamelCase(tablename) ==
    CASE tablename = "foo"       -> "Foo"
      [] tablename = "bar"       -> "Bar"
      [] tablename = "tree_node" -> "TreeNode"

----------------------------------------------------------------------------
(* Arguments, calls and results of a resolver invocation *)

\* args.filter / args.pagination: undefined, a string, or its parsed form
NoArg == [kind |-> "undefined", str |-> <<>>, table |-> "", conds |-> <<>>]

StrArg(x) == [kind |-> "string", str |-> x, table |-> "", conds |-> <<>>]

\* { [table]: conds }
Parsed(table, conds) ==
    [kind |-> "parsed", str |-> <<>>, table |-> table, conds |-> conds]

\* `args.filter ? ... : ...`
ArgTruthy(a) == a.kind = "parsed" \/ (a.kind = "string" /\ a.str # <<>>)

\* The args object: filter, pagination and (for mutations) input
Args(filter, pagination, input) ==
    [filter |-> filter, pagination |-> pagination, input |-> input]

\* A parent record; null is true for the root value
Item(fields) == [null |-> FALSE, fields |-> fields]

Root == [null |-> TRUE, fields |-> <<>>]

\* A value a call returned: null, what the driver call logged at position
\* `at` returned, the object GetPage builds, what a user handler or the
\* rejected callback returned, or (kind "throw") an exception
Result(kind, fn, at, at2, table) ==
    [kind |-> kind, fn |-> fn, at |-> at, at2 |-> at2, table |-> table]

NullV == Result("null", "", 0, 0, "")

DriverV(fn, at) == Result("driver", fn, at, 0, "")

ThrowV(why) == Result("throw", why, 0, 0, "")

\* One logged call fn(a1, a2, parent, args, context) and what it returned
Call(fn, a1, a2, parent, args, ctx, out) ==
    [fn |-> fn, a1 |-> a1, a2 |-> a2, parent |-> parent, args |-> args,
     ctx |-> ctx, out |-> out]

\* A driver call: dbDriver.fn(tablename, args)
DriverCall(fn, tablename, args, at) ==
    Call(fn, tablename, "", Root, args, "", DriverV(fn, at))

\* The [calls, out] of a step
Outcome(log, out) == [calls |-> log, out |-> out]

----------------------------------------------------------------------------
(* Resolver.parsePaginationExpression, parseArgsCommon *)

\* The parsed filter as the driver receives it
FilterArg(r) ==
    Parsed(r.table,
           [i \in 1..Len(r.conds) |->
               [j \in 1..Len(r.conds[i]) |-> Str(r.conds[i][j])]])

\* params.map((p) => p.trim())
TrimParams(params) == [j \in 1..Len(params) |-> Str(Trim(params[j]))]

\* pagExpr.split(';').map(...)
PaginationOf(tablename, clauses) ==
    Parsed(tablename,
           [i \in 1..Len(clauses) |-> TrimParams(Split(clauses[i], <<"=">>))])

parsePaginationExpression(expression, tablename) ==
    PaginationOf(tablename, Split(expression, <<";">>))

\* localArgs, given the parsed filter f (read only when args.filter is truthy)
LocalArgs(tablename, args, f) ==
    [threw |-> ArgTruthy(args.filter) /\ f.threw,
     args  |->
        [args EXCEPT
           !.filter = IF ArgTruthy(args.filter) THEN FilterArg(f) ELSE @,
           !.pagination =
               IF ArgTruthy(args.pagination)
               THEN parsePaginationExpression(args.pagination.str, tablename)
               ELSE @]]

\* [threw, args]: the shallow clone with filter and pagination parsed
parseArgsCommon(tablename, args) ==
    LocalArgs(tablename, args, parseFilterExpression(args.filter.str, tablename))

----------------------------------------------------------------------------
(* Resolver.GetPage, GetFirstOf, putItem *)

\* GetPage after args = this.parseArgsCommon(tablename, args)
PageOf(tablename, pa, log, at) ==
    IF pa.threw
    THEN Outcome(log, ThrowV("Filter operation not suported"))
    ELSE Outcome(log \o << DriverCall("pageTotal", tablename, pa.args, at),
                           DriverCall("page", tablename, pa.args, at + 1) >>,
                 Result("page", "", at, at + 1, tablename))

GetPage(tablename, parent, args, ctx, log) ==
    PageOf(tablename, parseArgsCommon(tablename, args), log, Len(log) + 1)

\* GetFirstOf after args = this.parseArgsCommon(tablename, args)
FirstOf(tablename, pa, log, at) ==
    IF pa.threw
    THEN Outcome(log, ThrowV("Filter operation not suported"))
    ELSE Outcome(Append(log, DriverCall("firstOf", tablename, pa.args, at)),
                 DriverV("firstOf", at))

GetFirstOf(tablename, parent, args, ctx, log) ==
    FirstOf(tablename, parseArgsCommon(tablename, args), log, Len(log) + 1)

\* assigned is result[0] of dbDriver.putItem
putItem(db, tablename, parent, data, ctx, log, assigned) ==
    LET pk  == getPrimaryKeyFromSchema(db, tablename)
        id0 == Prop(data.input, pk)
        at  == Len(log) + 1
        id  == IF ~Truthy(id0) THEN assigned ELSE id0
        args == Args(Parsed(tablename, << << Str(<<"=">>), Str(<<pk>>), id >> >>),
                     NoArg, <<>>)
    IN  Outcome(log \o << DriverCall("putItem", tablename, data, at),
                          DriverCall("firstOf", tablename, args, at + 1) >>,
                DriverV("firstOf", at + 1))

----------------------------------------------------------------------------
(* Resolver.add and the generated resolvers *)

\* A handler cb: a method of the resolver bound to a table, or a caller's function
Handler(h, table, id) == [h |-> h, table |-> table, id |-> id]

UserHandler(id) == Handler("user", "", id)

\* What the caller's function id returns
UserV(id) == Result("user", id, 0, 0, "")

\* The arrow function add() stores: it closes over namespace, name and cb
Wrapped(namespace, name, cb) ==
    [kind |-> "add", namespace |-> namespace, name |-> name, cb |-> cb,
     column |-> "", ftablename |-> "", fcolumnname |-> ""]

\* The arrow function createForeignFieldsResolvers stores: it closes over
\* column.name, ftablename and fcolumnname
ForeignFn(column, ftablename, fcolumnname) ==
    [kind |-> "foreign", namespace |-> "", name |-> "", cb |-> Handler("", "", ""),
     column |-> column, ftablename |-> ftablename, fcolumnname |-> fcolumnname]

\* The arrow function createReverseRelationsResolvers stores: it closes over
\* field (= r.ftablename), fcolumnname and r.columnname
ReverseFn(field, fcolumnname, columnname) ==
    [kind |-> "reverse", namespace |-> "", name |-> "", cb |-> Handler("", "", ""),
     column |-> columnname, ftablename |-> field, fcolumnname |-> fcolumnname]

\* this.resolvers[namespace][name] = fn, creating the namespace when missing
SetResolver(res, namespace, name, fn) ==
    LET space == IF Has(res, namespace) THEN Get(res, namespace) ELSE <<>>
    IN  Put(res, namespace, Put(space, name, fn))

add(res, namespace, name, cb) ==
    SetResolver(res, namespace, name, Wrapped(namespace, name, cb))

addDefaultFieldsResolvers(res, tablename) ==
    LET typeName == toCamelCase(tablename)
        r1 == add(res, "Query", typeName \o "GetPage", Handler("GetPage", tablename, ""))
        r2 == add(r1, "Query", typeName \o "GetFirst", Handler("GetFirstOf", tablename, ""))
    IN  add(r2, "Mutation", typeName \o "Put", Handler("putItem", tablename, ""))

\* columns.map(...) over the columns from position i on
RECURSIVE ForeignFrom(_, _, _, _)
ForeignFrom(res, queryName, cols, i) ==
    IF i > Len(cols) THEN res
    ELSE LET column == cols[i]
             field  == column.name \o "_" \o column.foreign.tablename
         IN  IF column.foreign # NoForeign
             THEN ForeignFrom(
                      SetResolver(res, queryName, field,
                                  ForeignFn(column.name, column.foreign.tablename,
                                            column.foreign.columnname)),
                      queryName, cols, i + 1)
             ELSE ForeignFrom(res, queryName, cols, i + 1)

createForeignFieldsResolvers(res, db, tablename) ==
    ForeignFrom(res, toCamelCase(tablename), TableOf(db, tablename).columns, 1)

\* __reverse.map(...) over the relations from position i on
RECURSIVE ReverseFrom(_, _, _, _)
ReverseFrom(res, queryName, rev, i) ==
    IF i > Len(rev) THEN res
    ELSE ReverseFrom(
             SetResolver(res, queryName, rev[i].ftablename,
                         ReverseFn(rev[i].ftablename, rev[i].fcolumnname,
                                   rev[i].columnname)),
             queryName, rev, i + 1)

createReverseRelationsResolvers(res, db, tablename) ==
    ReverseFrom(res, toCamelCase(tablename), TableOf(db, tablename).reverse, 1)

\* The loop of getResolvers over tables[i..]
RECURSIVE BuildResolversFrom(_, _, _, _)
BuildResolversFrom(res, db, tables, i) ==
    IF i > Len(tables) THEN res
    ELSE LET r1 == addDefaultFieldsResolvers(res, tables[i])
             r2 == createForeignFieldsResolvers(r1, db, tables[i])
             r3 == createReverseRelationsResolvers(r2, db, tables[i])
         IN  BuildResolversFrom(r3, db, tables, i + 1)

\* this.resolvers when getResolvers(withDatabase) returns
getResolvers(res, db, withDatabase) ==
    IF withDatabase
    THEN BuildResolversFrom(res, db, getTablesFromSchema(db), 1)
    ELSE res

----------------------------------------------------------------------------
(* Invoking a resolver of the map *)

\* The constructor's beforeHook
DefaultHook == [validator |-> "true", rejected |-> "null"]

\* The hooks the caller installs
Hooks ==
    { [validator |-> "false", rejected |-> "null"],
      [validator |-> "noReturn", rejected |-> "denied"],
      [validator |-> "queriesOnly", rejected |-> "throws"],
      [validator |-> "true", rejected |-> "denied"] }

\* What validator v returns for (namespace, name, root, args, context)
ValidatorValue(v, namespace, name) ==
    CASE v = "true"        -> Bool(TRUE)
      [] v = "false"       -> Bool(FALSE)
      [] v = "noReturn"    -> Undefined
      [] v = "queriesOnly" -> Bool(namespace = "Query")

\* What rejected callback r returns (or throws)
RejectedValue(r) ==
    CASE r = "null"   -> NullV
      [] r = "denied" -> Result("rejected", "denied", 0, 0, "")
      [] r = "throws" -> ThrowV("Access Denied")

\* What handler cb does, its own call being the last entry of log
HandlerBody(db, cb, parent, args, ctx, log, assigned) ==
    CASE cb.h = "user"       -> Outcome(log, UserV(cb.id))
      [] cb.h = "GetPage"    -> GetPage(cb.table, parent, args, ctx, log)
      [] cb.h = "GetFirstOf" -> GetFirstOf(cb.table, parent, args, ctx, log)
      [] cb.h = "putItem"    -> putItem(db, cb.table, parent, args, ctx, log, assigned)

\* The call logged at position `at` returned what its body returned
Returns(body, at) == Outcome([body.calls EXCEPT ![at].out = body.out], body.out)

RunHandler(db, cb, parent, args, ctx, log, assigned) ==
    Returns(HandlerBody(db, cb, parent, args, ctx,
                        Append(log, Call("cb", cb.h, cb.table \o cb.id, parent, args,
                                         ctx, NullV)),
                        assigned),
            Len(log) + 1)

\* add()'s function without its guard: the handler runs whatever the validator says
RunWrappedUnguarded(db, hook, f, root, args, assigned) ==
    RunHandler(db, f.cb, root, args, "ioc",
               << Call("validator", f.namespace, f.name, root, args, "ioc",
                       Result(IF Truthy(ValidatorValue(hook.validator, f.namespace, f.name))
                              THEN "truthy" ELSE "falsy", "", 0, 0, "")) >>,
               assigned)

\* The function add() stored, called with (root, args, context)
RunWrapped(db, hook, f, root, args, assigned) ==
    LET passBefore == ValidatorValue(hook.validator, f.namespace, f.name)
        log1 == << Call("validator", f.namespace, f.name, root, args, "ioc",
                        Result(IF Truthy(passBefore) THEN "truthy" ELSE "falsy",
                               "", 0, 0, "")) >>
    IN  IF ~Truthy(passBefore)
        THEN Outcome(Append(log1, Call("rejected", f.namespace, f.name, root, args,
                                       "ioc", RejectedValue(hook.rejected))),
                     RejectedValue(hook.rejected))
        ELSE RunHandler(db, f.cb, root, args, "ioc", log1, assigned)

\* The function createForeignFieldsResolvers stored, called with (item, args, context)
RunForeign(f, item, args) ==
    LET local == Prop(item.fields, f.column)
        filter == (IF ArgTruthy(args.filter) THEN args.filter.str \o <<";">> ELSE <<>>)
                  \o <<f.fcolumnname>> \o <<"#">> \o ToStr(local)
    IN  IF item.null THEN Outcome(<<>>, ThrowV("TypeError"))
        ELSE IF ~Truthy(local) THEN Outcome(<<>>, NullV)
        ELSE GetFirstOf(f.ftablename, item, [args EXCEPT !.filter = StrArg(filter)],
                        "", <<>>)

\* The function createReverseRelationsResolvers stored, called with (item, args, context)
RunReverse(f, item, args) ==
    LET filter == (IF ArgTruthy(args.filter) THEN args.filter.str \o <<";">> ELSE <<>>)
                  \o <<f.fcolumnname>> \o <<"#">> \o ToStr(Prop(item.fields, f.column))
    IN  IF item.null THEN Outcome(<<>>, ThrowV("TypeError"))
        ELSE GetPage(f.ftablename, item, [args EXCEPT !.filter = StrArg(filter)],
                     "", <<>>)

\* resolvers[namespace][name](root, args, context)
RunResolver(db, hook, f, root, args, assigned) ==
    CASE f.kind = "add"     -> RunWrapped(db, hook, f, root, args, assigned)
      [] f.kind = "foreign" -> RunForeign(f, root, args)
      [] f.kind = "reverse" -> RunReverse(f, root, args)

----------------------------------------------------------------------------
(* The schema compiler: the passes over one table *)

\* dbDriver.mapDbColumnToGraphqlType(name, column); "" when it throws
mapDbColumnToGraphqlType(column) ==
    CASE column.native = "serial"  -> "Int"
      [] column.native = "integer" -> "Int"
      [] column.native = "boolean" -> "Boolean"
      [] OTHER                     -> ""

\* A field's type: a name, or the one-element array [name]
Named(name) == [array |-> FALSE, name |-> name]

ListOf(name) == [array |-> TRUE, name |-> name]

\* { name, type, params }; params is an object (empty also when left out)
FieldDef(name, type, params) == [name |-> name, type |-> type, params |-> params]

\* The params of GetPage, GetFirst and the reverse-relation fields
StandardParams ==
    << [k |-> "filter", v |-> "String"], [k |-> "pagination", v |-> "String"],
       [k |-> "where", v |-> "Condition"], [k |-> "_debug", v |-> "Boolean"],
       [k |-> "_cache", v |-> "Boolean"] >>

\* constructor: this.schema
EmptySchema == [type |-> <<>>, input |-> <<>>]

\* if (!obj[key]) obj[key] = {}
Ensure(obj, key) == IF Has(obj, key) THEN obj ELSE Put(obj, key, <<>>)

\* obj[key] kept as a list of fields: every assignment adds an entry
PutInAppending(obj, key, field, val) ==
    Put(obj, key, Append(Get(obj, key), [k |-> field, v |-> val]))

\* obj[key][field] = val, for an object obj[key] that exists
PutIn(obj, key, field, val) == Put(obj, key, Put(Get(obj, key), field, val))

\* The loop without its try/catch: the first mapping that throws ends it
RECURSIVE ScalarsFromAborting(_, _, _, _)
ScalarsFromAborting(ty, field, cols, i) ==
    IF i > Len(cols) \/ mapDbColumnToGraphqlType(cols[i]) = "" THEN ty
    ELSE ScalarsFromAborting(
             PutIn(ty, field, cols[i].name,
                   FieldDef(cols[i].name, Named(mapDbColumnToGraphqlType(cols[i])), <<>>)),
             field, cols, i + 1)

\* columns.forEach(...): the scalar field of each column from position i on;
\* a column whose type mapping throws is skipped
RECURSIVE ScalarsFrom(_, _, _, _)
ScalarsFrom(ty, field, cols, i) ==
    IF i > Len(cols) THEN ty
    ELSE IF mapDbColumnToGraphqlType(cols[i]) = ""
    THEN ScalarsFrom(ty, field, cols, i + 1)
    ELSE ScalarsFrom(
             PutIn(ty, field, cols[i].name,
                   FieldDef(cols[i].name, Named(mapDbColumnToGraphqlType(cols[i])), <<>>)),
             field, cols, i + 1)

\* columns.map(...): the relation field of each foreign-key column from i on
RECURSIVE ForeignFieldsFrom(_, _, _, _)
ForeignFieldsFrom(ty, field, cols, i) ==
    IF i > Len(cols) THEN ty
    ELSE IF cols[i].foreign = NoForeign
    THEN ForeignFieldsFrom(ty, field, cols, i + 1)
    ELSE ForeignFieldsFrom(
             PutIn(ty, field, cols[i].name \o "_" \o cols[i].foreign.tablename,
                   FieldDef(cols[i].name \o "_" \o cols[i].foreign.tablename,
                            Named(toCamelCase(cols[i].foreign.tablename)), <<>>)),
             field, cols, i + 1)

\* __reverse.map(...): the paginated field of each reverse relation from i on
RECURSIVE ReverseFieldsFrom(_, _, _, _)
ReverseFieldsFrom(ty, field, rev, i) ==
    IF i > Len(rev) THEN ty
    ELSE ReverseFieldsFrom(
             PutIn(ty, field, rev[i].ftablename,
                   FieldDef(rev[i].ftablename,
                            Named(toCamelCase(rev[i].ftablename) \o "Page"),
                            StandardParams)),
             field, rev, i + 1)

\* this.schema.type[field + 'Page'] = { total, items }
PageType(field) ==
    << [k |-> "total", v |-> FieldDef("total", Named("Int"), <<>>)],
       [k |-> "items", v |-> FieldDef("items", ListOf(field), <<>>)] >>

\* The pass with the reverse relations added before the foreign relations
TypePassReverseFirst(ty, table, field) ==
    Put(ForeignFieldsFrom(
            ReverseFieldsFrom(
                ScalarsFrom(Ensure(ty, field), field, table.columns, 1),
                field, table.reverse, 1),
            field, table.columns, 1),
        field \o "Page", PageType(field))

\* schema.type after mapDbTableToGraphqlType(tablename)
TypePass(ty, table, field) ==
    Put(ReverseFieldsFrom(
            ForeignFieldsFrom(
                ScalarsFrom(Ensure(ty, field), field, table.columns, 1),
                field, table.columns, 1),
            field, table.reverse, 1),
        field \o "Page", PageType(field))

mapDbTableToGraphqlType(sch, db, tablename) ==
    [sch EXCEPT !.type = TypePass(@, TableOf(db, tablename), toCamelCase(tablename))]

mapDbTableToGraphqlQuery(sch, tablename) ==
    [sch EXCEPT !.type =
        PutIn(Ensure(@, "Query"), "Query", toCamelCase(tablename) \o "GetPage",
              FieldDef(toCamelCase(tablename) \o "GetPage",
                       Named(toCamelCase(tablename) \o "Page"), StandardParams))]

mapDbTableToGraphqlFirstOf(sch, tablename) ==
    [sch EXCEPT !.type =
        PutIn(Ensure(@, "Query"), "Query", toCamelCase(tablename) \o "GetFirst",
              FieldDef(toCamelCase(tablename) \o "GetFirst",
                       Named(toCamelCase(tablename)), StandardParams))]

getInputName(tablename) == toCamelCase(tablename) \o "Input"

\* The pass with the field named as Resolver.addDefaultFieldsResolvers names it
mapDbTableToGraphqlMutationAsPut(sch, tablename) ==
    [sch EXCEPT !.type =
        PutIn(Ensure(@, "Mutation"), "Mutation", toCamelCase(tablename) \o "Put",
              FieldDef(toCamelCase(tablename) \o "Put",
                       Named(toCamelCase(tablename)),
                       << [k |-> "_debug", v |-> "Boolean"],
                          [k |-> "input", v |-> getInputName(tablename) \o "!"] >>))]

mapDbTableToGraphqlMutation(sch, tablename) ==
    [sch EXCEPT !.type =
        PutIn(Ensure(@, "Mutation"), "Mutation", toCamelCase(tablename) \o "PutItem",
              FieldDef(toCamelCase(tablename) \o "PutItem",
                       Named(toCamelCase(tablename)),
                       << [k |-> "_debug", v |-> "Boolean"],
                          [k |-> "input", v |-> getInputName(tablename) \o "!"] >>))]

\* columns.forEach(...): the input field of each column from position i on
RECURSIVE InputsFrom(_, _, _, _)
InputsFrom(inp, name, cols, i) ==
    IF i > Len(cols) THEN inp
    ELSE IF mapDbColumnToGraphqlType(cols[i]) = ""
    THEN InputsFrom(inp, name, cols, i + 1)
    ELSE InputsFrom(PutIn(inp, name, cols[i].name, mapDbColumnToGraphqlType(cols[i])),
                    name, cols, i + 1)

mapDbTableToGraphqlInput(sch, db, tablename) ==
    [sch EXCEPT !.input =
        InputsFrom(Ensure(@, getInputName(tablename)), getInputName(tablename),
                   TableOf(db, tablename).columns, 1)]

\* The five passes of one table, each awaited, in the order of the builds
buildSchemaByTable(sch, db, tablename) ==
    mapDbTableToGraphqlInput(
        mapDbTableToGraphqlMutation(
            mapDbTableToGraphqlFirstOf(
                mapDbTableToGraphqlQuery(
                    mapDbTableToGraphqlType(sch, db, tablename),
                    tablename),
                tablename),
            tablename),
        db, tablename)

\* for (let tablename in this.dbSchema): the tables from position i on
RECURSIVE BuildFrom(_, _, _)
BuildFrom(sch, db, i) ==
    IF i > Len(db) THEN sch
    ELSE BuildFrom(buildSchemaByTable(sch, db, db[i].name), db, i + 1)

async_buildSchema(sch, db) == BuildFrom(sch, db, 1)

\* addType that leaves a field the type already has as it is
addTypeKeepingFirst(sch, type, field, returns, params) ==
    IF Has(sch.type, type) /\ Has(Get(sch.type, type), field)
    THEN sch
    ELSE [sch EXCEPT !.type = PutIn(Ensure(@, type), type, field,
                                    FieldDef(field, returns, params))]

addType(sch, type, field, returns, params) ==
    [sch EXCEPT !.type = PutIn(Ensure(@, type), type, field,
                               FieldDef(field, returns, params))]

addInput(sch, input, field, subType) ==
    [sch EXCEPT !.input = PutIn(Ensure(@, input), input, field, subType)]

----------------------------------------------------------------------------
(* Compiler.getSDL: a text is the sequence of its lines, a line the sequence
   of the strings concatenated into it *)

\* '' : one empty line
EmptyText == << <<>> >>

\* pieces.join(sep), from piece i on
RECURSIVE JoinFrom(_, _, _)
JoinFrom(pieces, sep, i) ==
    IF i > Len(pieces) THEN <<>>
    ELSE IF i = Len(pieces) THEN pieces[i]
    ELSE pieces[i] \o sep \o JoinFrom(pieces, sep, i + 1)

ParamText(params) ==
    [i \in 1..Len(params) |-> <<params[i].k, ": ", params[i].v>>]

buildParamsFromObject(obj) ==
    IF obj = <<>> THEN <<>>
    ELSE <<"(">> \o JoinFrom(ParamText(obj), <<", ">>, 1) \o <<")">>

\* Array.isArray(f.type) ? '[' + f.type[0] + ']' : f.type
TypeText(type) == IF type.array THEN <<"[", type.name, "]">> ELSE <<type.name>>

\* One line of a type block
FieldLine(f) ==
    <<"  ", f.name>> \o buildParamsFromObject(f.params) \o <<": ">> \o TypeText(f.type)

\* One line of an input block
InputLine(key, type) == <<"  ", key, ": ", type>>

\* kind + field + ' {\n' + subfields.join('\n') + '\n}', subfields being lines
Block(kind, field, subfields) ==
    << <<kind, field, " {">> >>
    \o (IF subfields = <<>> THEN EmptyText ELSE subfields)
    \o << <<"}">> >>

TypeBlock(entry) ==
    Block("type ", entry.k, [i \in 1..Len(entry.v) |-> FieldLine(entry.v[i].v)])

InputBlock(entry) ==
    Block("input ", entry.k,
          [i \in 1..Len(entry.v) |-> InputLine(entry.v[i].k, entry.v[i].v)])

\* items: the type blocks, then the input blocks
Items(sch) ==
    [i \in 1..Len(sch.type) |-> TypeBlock(sch.type[i])]
    \o [i \in 1..Len(sch.input) |-> InputBlock(sch.input[i])]

\* items.join('\n\n') + '\n'
Render(sch) ==
    (IF Items(sch) = <<>> THEN EmptyText ELSE JoinFrom(Items(sch), EmptyText, 1))
    \o EmptyText

\* String.prototype.trim on a text whose lines do not start or end with blanks
RECURSIVE TrimText(_)
TrimText(text) ==
    IF Len(text) = 1 THEN text
    ELSE IF Head(text) = <<>> THEN TrimText(Tail(text))
    ELSE IF text[Len(text)] = <<>> THEN TrimText(SubSeq(text, 1, Len(text) - 1))
    ELSE text

\* this.sdl when getSDL(refresh) returns
getSDL(sch, cached, refresh) ==
    IF cached = EmptyText \/ refresh THEN Render(sch) ELSE cached

----------------------------------------------------------------------------
(* Compiler.buildSchema: the passes called without await. A pass runs up to
   its first await inside the call; what follows each await is a continuation
   in the microtask queue. The driver returns plain values and
   utils.toCamelCase a string, so every await resumes one turn later. *)

Task(pass, tablename) == [pass |-> pass, table |-> tablename]

\* What the five calls of one loop turn leave in the queue, in call order:
\* the rest of mapDbTableToGraphqlType after `await ...getTableColumnsFromSchema`,
\* of Query, FirstOf and Mutation after `await utils.toCamelCase`, and the
\* rest of getInputName, which mapDbTableToGraphqlInput waits for
FirstTasks == <<"type1", "query1", "firstOf1", "mutation1", "inputName">>

\* The queued continuations of all tables, table by table
QueuedBy(db) ==
    [n \in 1..(Len(db) * Len(FirstTasks)) |->
        Task(FirstTasks[((n - 1) % Len(FirstTasks)) + 1],
             db[((n - 1) \div Len(FirstTasks)) + 1].name)]

\* if (!this.schema.type[field]) this.schema.type[field] = {}, the one
\* statement of the passes that runs inside the calls, for the tables from i on
RECURSIVE EnsureTypesFrom(_, _, _)
EnsureTypesFrom(ty, db, i) ==
    IF i > Len(db) THEN ty
    ELSE EnsureTypesFrom(Ensure(ty, toCamelCase(db[i].name)), db, i + 1)

\* this.schema when buildSchema() returns
buildSchema(sch, db) == [sch EXCEPT !.type = EnsureTypesFrom(@, db, 1)]

\* this.schema after one continuation has run up to its next await or its end
RunContinuation(sch, db, task) ==
    CASE task.pass = "type1" ->
            [sch EXCEPT !.type = ScalarsFrom(@, toCamelCase(task.table),
                                             TableOf(db, task.table).columns, 1)]
      [] task.pass = "type2" ->
            [sch EXCEPT !.type =
                Put(ReverseFieldsFrom(
                        ForeignFieldsFrom(@, toCamelCase(task.table),
                                          TableOf(db, task.table).columns, 1),
                        toCamelCase(task.table), TableOf(db, task.table).reverse, 1),
                    toCamelCase(task.table) \o "Page", PageType(toCamelCase(task.table)))]
      [] task.pass = "query1" -> mapDbTableToGraphqlQuery(sch, task.table)
      [] task.pass = "firstOf1" -> mapDbTableToGraphqlFirstOf(sch, task.table)
      [] task.pass = "mutation1" -> [sch EXCEPT !.type = Ensure(@, "Mutation")]
      [] task.pass = "mutation2" -> mapDbTableToGraphqlMutation(sch, task.table)
      [] task.pass = "input1" ->
            [sch EXCEPT !.input = Ensure(@, getInputName(task.table))]
      [] task.pass = "input2" -> mapDbTableToGraphqlInput(sch, db, task.table)
      [] OTHER -> sch

\* The continuation the next await of the pass puts in the queue, if any.
\* "mutationName" and "inputName" are the rest of getInputName after its
\* await: its return resumes the pass that waits for it
NextOf(task) ==
    CASE task.pass = "type1" -> << Task("type2", task.table) >>
      [] task.pass = "mutation1" -> << Task("mutationName", task.table) >>
      [] task.pass = "mutationName" -> << Task("mutation2", task.table) >>
      [] task.pass = "inputName" -> << Task("input1", task.table) >>
      [] task.pass = "input1" -> << Task("input2", task.table) >>
      [] OTHER -> <<>>

----------------------------------------------------------------------------
(* Compiler.getSDL step by step: it awaits once for every key it visits *)

\* No getSDL call is in progress
NoRender ==
    [active |-> FALSE, done |-> FALSE, immediate |-> FALSE, refresh |-> FALSE,
     live |-> FALSE, part |-> "type", pos |-> 1, limit |-> 0, items |-> <<>>]

\* for (let field in obj): the keys the loop visits. Whether it visits keys
\* added while it runs is left to the engine: a live loop visits them, the
\* other one stops at the keys the object had when the loop started
Visited(r, obj) == IF r.live THEN Len(obj) ELSE r.limit

\* The loop over this.schema.type has ended: the loop over this.schema.input starts
Advance(r, sch) ==
    IF r.part = "type" /\ r.pos > Visited(r, sch.type)
    THEN [r EXCEPT !.part = "input", !.pos = 1, !.limit = Len(sch.input)]
    ELSE r

\* items.push(...) for the key the call waited at
Pushed(r, sch) ==
    [r EXCEPT !.items = Append(@, IF r.part = "type" THEN TypeBlock(sch.type[r.pos])
                                  ELSE InputBlock(sch.input[r.pos])),
              !.pos = @ + 1]

----------------------------------------------------------------------------
(* The expressions parseFilterExpression is run on: all of up to MaxExprLen tokens *)

ExprTokens == {"a", "1", "=", "<", ">", "~", "#", ";", " "}

RECURSIVE SeqsUpTo(_, _)
SeqsUpTo(S, n) ==
    IF n = 0 THEN {<<>>}
    ELSE LET shorter == SeqsUpTo(S, n - 1)
         IN  shorter \cup {Append(s, x) : s \in shorter, x \in S}

Exprs == SeqsUpTo(ExprTokens, MaxExprLen)

\* fres before the call: nothing returned yet
NotParsed == [called |-> FALSE, threw |-> FALSE, table |-> "", conds |-> <<>>]

----------------------------------------------------------------------------
(* The resolver registry in use: registrations, getResolvers, invocations *)

\* The keys the caller registers handlers of its own under, and the handlers
ManualKeys == { <<"Query", "FooGetPage">>, <<"Bar", "foo_id_foo">>, <<"Query", "hello">> }

UserHandlers == {"h1"}

\* The values of the parent's relation columns
LocalValues == { Null, Num(0), Num(1), Str(<<>>), Str(<<"x">>) }

ParentWith(v) ==
    Item(<< [k |-> "id", v |-> Num(5)], [k |-> "foo_id", v |-> v],
            [k |-> "parent_id", v |-> v] >>)

\* The (root, args) pairs resolvers are invoked with
Requests ==
    { [root |-> Root, args |-> Args(NoArg, NoArg, <<>>)],
      [root |-> Root, args |-> Args(StrArg(<<"a", "=", "1">>), NoArg, <<>>)],
      [root |-> Root, args |-> Args(StrArg(<<"z">>), NoArg, <<>>)],
      [root |-> Root,
       args |-> Args(NoArg, StrArg(<<"limit", "=", "2", ";", "orderby", "=", "a">>), <<>>)],
      [root |-> Root, args |-> Args(NoArg, NoArg, << [k |-> "id", v |-> Num(0)] >>)],
      [root |-> Root, args |-> Args(NoArg, NoArg, << [k |-> "id", v |-> Num(3)] >>)],
      [root |-> Root, args |-> Args(NoArg, NoArg, << [k |-> "id", v |-> Str(<<>>)] >>)],
      [root |-> Item(<< [k |-> "id", v |-> Num(5)] >>), args |-> Args(NoArg, NoArg, <<>>)],
      [root |-> ParentWith(Num(1)),
       args |-> Args(StrArg(<<"a", "=", "1">>), NoArg, <<>>)] }
    \cup { [root |-> ParentWith(v), args |-> Args(NoArg, NoArg, <<>>)] : v \in LocalValues }

\* The ids the driver's putItem reports as newly assigned
AssignedIds == { Num(7) }

\* No invocation since the registry last changed
NoInv ==
    [active |-> FALSE, namespace |-> "", name |-> "", root |-> Root,
     args |-> Args(NoArg, NoArg, <<>>), assigned |-> Null,
     fn |-> Wrapped("", "", Handler("", "", ""))]

Forget ==
    /\ inv' = NoInv
    /\ calls' = <<>>
    /\ ret' = NullV

\* new Resolver(dbDriver)
NewResolver ==
    /\ resolvers = <<>>
    /\ beforeHook = DefaultHook
    /\ returned = FALSE
    /\ manual = [key \in ManualKeys |-> ""]
    /\ inv = NoInv
    /\ calls = <<>>
    /\ ret = NullV

\* No parseFilterExpression call of its own
NoParse ==
    /\ fexpr = <<>>
    /\ fres = NotParsed

\* The caller registers a handler of its own: resolver.add(namespace, name, cb)
Add ==
    \E key \in ManualKeys, id \in UserHandlers :
        /\ ~inv.active
        /\ resolvers' = add(resolvers, key[1], key[2], UserHandler(id))
        /\ manual' = [manual EXCEPT ![key] = id]
        /\ Forget
        /\ UNCHANGED <<dbSchema, beforeHook, returned, pvars, cvars>>

\* await resolver.getResolvers(withDatabase)
GetResolversWith(withDatabase) ==
    /\ ~inv.active
    /\ resolvers' = getResolvers(resolvers, dbSchema, withDatabase)
    /\ returned' = TRUE
    /\ Forget
    /\ UNCHANGED <<dbSchema, beforeHook, manual, pvars, cvars>>

GetResolvers == \E withDatabase \in BOOLEAN : GetResolversWith(withDatabase)

\* The caller installs an authorization hook: beforeHook = {validator, rejected}
SetBeforeHook ==
    \E hook \in Hooks \cup {DefaultHook} :
        /\ ~inv.active
        /\ hook # beforeHook
        /\ beforeHook' = hook
        /\ Forget
        /\ UNCHANGED <<dbSchema, resolvers, returned, manual, pvars, cvars>>

\* The execution engine calls one resolver of the map it was given
Invoke ==
    /\ returned
    /\ ~inv.active
    /\ \E i \in 1..Len(resolvers) :
        \E j \in 1..Len(resolvers[i].v) :
          \E req \in Requests, assigned \in AssignedIds :
            \E run \in { RunResolver(dbSchema, beforeHook, resolvers[i].v[j].v,
                                      req.root, req.args, assigned) } :
                /\ inv' = [active |-> TRUE, namespace |-> resolvers[i].k,
                           name |-> resolvers[i].v[j].k, root |-> req.root,
                           args |-> req.args, assigned |-> assigned,
                           fn |-> resolvers[i].v[j].v]
                /\ calls' = run.calls
                /\ ret' = run.out
    /\ UNCHANGED <<dbSchema, resolvers, beforeHook, returned, manual, pvars, cvars>>

\* The engine takes the value the resolver returned (or its exception)
Deliver ==
    /\ inv.active
    /\ Forget
    /\ UNCHANGED <<dbSchema, resolvers, beforeHook, returned, manual, pvars, cvars>>

----------------------------------------------------------------------------
(* The compiler in use: builds, manual injection, getSDL *)

NoOp == [op |-> "none", table |-> ""]

NoPending ==
    [active |-> FALSE, type |-> "", def |-> FieldDef("", Named(""), <<>>),
     collides |-> FALSE]

NoShown ==
    [valid |-> FALSE, refresh |-> FALSE, cached |-> FALSE, text |-> EmptyText,
     inj |-> NoPending]

\* The last build did not repeat the build before it
NoBefore == [repeat |-> FALSE, schema |-> EmptySchema]

\* new Compiler(dbSchema, dbDriver)
NewCompiler ==
    /\ schema = EmptySchema
    /\ sdl = EmptyText
    /\ last = NoOp
    /\ phase = "fresh"
    /\ pending = NoPending
    /\ shown = NoShown
    /\ injected = 0
    /\ before = NoBefore
    /\ tasks = <<>>
    /\ render = NoRender

\* The addType calls of the caller: [type, def]
TypeInjections ==
    { [type |-> "Foo", def |-> FieldDef("name", Named("String"), <<>>)],
      [type |-> "Foo",
       def |-> FieldDef("fullname", Named("String"), << [k |-> "foo", v |-> "String"] >>)],
      [type |-> "Query",
       def |-> FieldDef("FooGetPage", ListOf("Foo"), << [k |-> "limit", v |-> "Int"] >>)] }

\* The addInput calls of the caller
InputInjections == { [input |-> "FooInput", field |-> "name", subType |-> "String"] }

\* What a full build of a new compiler puts under type.field, if anything
Generated(db, type, field) ==
    /\ Has(async_buildSchema(EmptySchema, db).type, type)
    /\ Has(Get(async_buildSchema(EmptySchema, db).type, type), field)

\* type.field is in the model and is a field the builds generate
HoldsGenerated(sch, db, type, field) ==
    /\ Has(sch.type, type)
    /\ Has(Get(sch.type, type), field)
    /\ Generated(db, type, field)

\* await compiler.async_buildSchema()
AsyncBuildSchema ==
    /\ schema' = async_buildSchema(schema, dbSchema)
    /\ last' = [op |-> "async_buildSchema", table |-> ""]
    /\ phase' = IF phase \in {"fresh", "fullBuilt"} THEN "fullBuilt" ELSE "other"
    /\ pending' = NoPending
    /\ shown' = NoShown
    /\ before' = NoBefore
    /\ UNCHANGED <<sdl, injected, tasks, render, dbSchema, pvars, rvars>>

\* await compiler.buildSchemaByTable(tablename)
BuildSchemaByTable ==
    \E i \in 1..Len(dbSchema) :
        /\ schema' = buildSchemaByTable(schema, dbSchema, dbSchema[i].name)
        /\ last' = [op |-> "buildSchemaByTable", table |-> dbSchema[i].name]
        /\ phase' = "other"
        /\ pending' = NoPending
        /\ shown' = NoShown
        /\ before' = IF last = [op |-> "buildSchemaByTable", table |-> dbSchema[i].name]
                     THEN [repeat |-> TRUE, schema |-> schema]
                     ELSE NoBefore
        /\ UNCHANGED <<sdl, injected, tasks, render, dbSchema, pvars, rvars>>

\* compiler.addType(type, field, returns, params)
AddType ==
    \E inj \in TypeInjections :
        /\ injected < MaxInjected
        /\ injected' = injected + 1
        /\ schema' = addType(schema, inj.type, inj.def.name, inj.def.type, inj.def.params)
        /\ pending' = [active |-> TRUE, type |-> inj.type, def |-> inj.def,
                       collides |-> HoldsGenerated(schema, dbSchema, inj.type, inj.def.name)]
        /\ last' = [op |-> "addType", table |-> ""]
        /\ phase' = "other"
        /\ shown' = NoShown
        /\ before' = NoBefore
        /\ UNCHANGED <<sdl, tasks, render, dbSchema, pvars, rvars>>

\* compiler.addInput(input, field, subType)
AddInput ==
    \E inj \in InputInjections :
        /\ injected < MaxInjected
        /\ injected' = injected + 1
        /\ schema' = addInput(schema, inj.input, inj.field, inj.subType)
        /\ last' = [op |-> "addInput", table |-> ""]
        /\ phase' = "other"
        /\ pending' = NoPending
        /\ shown' = NoShown
        /\ before' = NoBefore
        /\ UNCHANGED <<sdl, tasks, render, dbSchema, pvars, rvars>>

\* await compiler.getSDL(refresh)
GetSDL ==
    \E refresh \in BOOLEAN :
        \E text \in { getSDL(schema, sdl, refresh) } :
            /\ sdl' = text
            /\ shown' = [valid |-> TRUE, refresh |-> refresh, cached |-> sdl # EmptyText,
                         text |-> TrimText(text), inj |-> pending]
            /\ pending' = NoPending
            /\ UNCHANGED <<schema, last, phase, injected, before, tasks, render, dbSchema, pvars, rvars>>

InitCompiler ==
    /\ dbSchema \in DbSchemas
    /\ NewCompiler
    /\ NewResolver
    /\ NoParse

NextCompiler ==
    AsyncBuildSchema \/ BuildSchemaByTable \/ AddType \/ AddInput \/ GetSDL \/ GetResolvers

SpecCompiler == InitCompiler /\ [][NextCompiler]_vars

----------------------------------------------------------------------------
(* The synchronous build in use: buildSchema, the microtask queue, getSDL *)

\* compiler.buildSchema(), on a compiler with no call in progress
BuildSchema ==
    /\ tasks = <<>>
    /\ ~render.active
    /\ schema' = buildSchema(schema, dbSchema)
    /\ tasks' = QueuedBy(dbSchema)
    /\ last' = [op |-> "buildSchema", table |-> ""]
    /\ phase' = "other"
    /\ render' = NoRender
    /\ shown' = NoShown
    /\ UNCHANGED <<sdl, pending, injected, before, dbSchema, pvars, rvars>>

\* The continuation of a pass at the head of the queue runs
RunPass ==
    /\ tasks # <<>>
    /\ Head(tasks).pass # "getSDL"
    /\ schema' = RunContinuation(schema, dbSchema, Head(tasks))
    /\ tasks' = Tail(tasks) \o NextOf(Head(tasks))
    /\ last' = [op |-> Head(tasks).pass, table |-> Head(tasks).table]
    /\ UNCHANGED <<sdl, phase, pending, shown, injected, before, render, dbSchema,
                   pvars, rvars>>

\* The getSDL call r goes on after the keys visited so far. With both loops
\* at their end it joins the items (items.join('\n\n') + '\n') into this.sdl
\* and returns the trimmed text; otherwise it waits at the key r.pos
\* (await this.schema.type[field]) behind the continuations in `queue`
GetSDLGoesOn(r, queue) ==
    IF r.part = "input" /\ r.pos > Visited(r, schema.input)
    THEN \E text \in { (IF r.items = <<>> THEN EmptyText
                        ELSE JoinFrom(r.items, EmptyText, 1)) \o EmptyText } :
            /\ sdl' = text
            /\ shown' = [valid |-> TRUE, refresh |-> r.refresh, cached |-> FALSE,
                         text |-> TrimText(text), inj |-> NoPending]
            /\ render' = [r EXCEPT !.active = FALSE, !.done = TRUE]
            /\ tasks' = queue
    ELSE /\ sdl' = EmptyText
         /\ render' = r
         /\ tasks' = Append(queue, Task("getSDL", ""))
         /\ UNCHANGED shown

\* compiler.getSDL(refresh) is called after a build; the call runs up to its
\* first await, or returns the cached text
StartGetSDL ==
    \E refresh \in BOOLEAN, live \in BOOLEAN :
        /\ last # NoOp
        /\ ~render.active
        /\ IF sdl # EmptyText /\ ~refresh
           THEN /\ ~live
                /\ shown' = [valid |-> TRUE, refresh |-> FALSE, cached |-> TRUE,
                             text |-> TrimText(sdl), inj |-> NoPending]
                /\ render' = [NoRender EXCEPT !.done = TRUE,
                                              !.immediate = last.op = "buildSchema"]
                /\ UNCHANGED <<sdl, tasks>>
           ELSE GetSDLGoesOn(
                    Advance([NoRender EXCEPT !.active = TRUE,
                                             !.immediate = last.op = "buildSchema",
                                             !.refresh = refresh, !.live = live,
                                             !.limit = Len(schema.type)], schema),
                    tasks)
        /\ UNCHANGED <<schema, last, phase, pending, injected, before, dbSchema,
                       pvars, rvars>>

\* The getSDL call at the head of the queue resumes: it pushes the block of
\* the key it waited at and goes on to the next key or to its end
ContinueGetSDL ==
    /\ tasks # <<>>
    /\ Head(tasks).pass = "getSDL"
    /\ GetSDLGoesOn(Advance(Pushed(render, schema), schema), Tail(tasks))
    /\ UNCHANGED <<schema, last, phase, pending, injected, before, dbSchema,
                   pvars, rvars>>

NextSyncBuild == BuildSchema \/ RunPass \/ StartGetSDL \/ ContinueGetSDL

SpecSyncBuild == InitCompiler /\ [][NextSyncBuild]_vars

----------------------------------------------------------------------------
(* The specifications of the parser and of the resolver registry *)

InitParser ==
    /\ fexpr \in Exprs
    /\ fres = NotParsed
    /\ dbSchema = <<>>
    /\ NewResolver
    /\ NewCompiler

\* this.parseFilterExpression(fexpr, "foo")
ParseFilter ==
    /\ ~fres.called
    /\ fres' = [called |-> TRUE] @@ parseFilterExpression(fexpr, "foo")
    /\ UNCHANGED <<fexpr, dbSchema, rvars, cvars>>

NextParser == ParseFilter

SpecParser == InitParser /\ [][NextParser]_vars

InitResolver ==
    /\ dbSchema \in DbSchemas
    /\ NewResolver
    /\ NewCompiler
    /\ NoParse

NextResolver == Add \/ GetResolvers \/ SetBeforeHook \/ Invoke \/ Deliver

SpecResolver == InitResolver /\ [][NextResolver]_vars

----------------------------------------------------------------------------
(* C6 *)

\* The operator the claim names for a clause: the one that starts leftmost,
\* ties at one position broken by the priority order of FilterOps.
\* <<pos, k>>: FilterOps[k] starts at pos; <<0, 0>> when the clause has none.
ClaimedOp(clause) ==
    LET starts == {pk \in (1..Len(clause)) \X (1..Len(FilterOps)) :
                      MatchAt(clause, FilterOps[pk[2]], pk[1])}
    IN  IF starts = {} THEN <<0, 0>>
        ELSE CHOOSE pk \in starts : \A qk \in starts :
                \/ pk[1] < qk[1]
                \/ pk[1] = qk[1] /\ pk[2] <= qk[2]

\* The triple the claim names: [op, trimmed text before it, trimmed text after it]
ClaimedTriple(clause) ==
    LET pk == ClaimedOp(clause)
        op == FilterOps[pk[2]]
    IN  <<op, Trim(Slice(clause, 1, pk[1] - 1)),
              Trim(Slice(clause, pk[1] + Len(op), Len(clause)))>>

\* C6: for an expression whose every ';'-separated clause contains an
\* operator, parseFilterExpression returns { table: L } with one entry per
\* clause, in clause order, each exactly the triple [op, field, value] of the
\* leftmost operator, also when the value contains the operator again.
C6_ParsesTriples ==
    LET clauses == Split(fexpr, <<";">>)
    IN  (fres.called /\ \A k \in 1..Len(clauses) : ClaimedOp(clauses[k]) # <<0, 0>>)
        => /\ ~fres.threw
           /\ fres.table = "foo"
           /\ Len(fres.conds) = Len(clauses)
           /\ \A k \in 1..Len(clauses) : fres.conds[k] = ClaimedTriple(clauses[k])

----------------------------------------------------------------------------
(* C1, C2, C4, C7, C9: the resolver registry *)

\* The positions of the calls of the handler in the last invocation
HandlerCalls == {i \in 1..Len(calls) : calls[i].fn = "cb"}

\* The active validator's verdict on the last invocation
ValidatorPasses ==
    Truthy(ValidatorValue(beforeHook.validator, inv.namespace, inv.name))

IsDriverCall(c) == c.fn \in {"firstOf", "page", "pageTotal", "putItem"}

\* The driver calls of the last invocation, in order
DriverCalls == SelectSeq(calls, IsDriverCall)

\* C1: an invocation of a resolver registered with add(namespace, field,
\* handler) returns the rejected callback's result without invoking handler
\* when the active validator returns a falsy value, and otherwise invokes
\* handler exactly once with (parent, args, context) and returns its result;
\* under the default hook the handler always runs.
C1_AddGuardsHandler ==
    (inv.active /\ inv.fn.kind = "add") =>
        /\ calls[1].fn = "validator"
        /\ ~ValidatorPasses =>
              /\ HandlerCalls = {}
              /\ DriverCalls = <<>>
              /\ calls[Len(calls)].fn = "rejected"
              /\ ret = RejectedValue(beforeHook.rejected)
        /\ ValidatorPasses =>
              /\ Cardinality(HandlerCalls) = 1
              /\ \A i \in HandlerCalls :
                    /\ calls[i].a1 = inv.fn.cb.h
                    /\ calls[i].a2 = inv.fn.cb.table \o inv.fn.cb.id
                    /\ calls[i].parent = inv.root
                    /\ calls[i].args = inv.args
                    /\ calls[i].ctx = "ioc"
                    /\ ret = calls[i].out
        /\ beforeHook = DefaultHook => HandlerCalls # {}

\* C1's case: a resolver registered with add was invoked under a validator
\* that returned a falsy value, and the rejected callback's value came back
C1_Witness ==
    /\ inv.active
    /\ inv.fn.kind = "add"
    /\ inv.fn.cb.h = "GetFirstOf"
    /\ ~ValidatorPasses
    /\ ret = Result("rejected", "denied", 0, 0, "")

\* C2: every entry of the map returned by getResolvers(), relation fields
\* included, calls the active validator first and makes no driver call when
\* the validator returns false.
C2_EveryFieldGuarded ==
    inv.active =>
        /\ calls # <<>> /\ calls[1].fn = "validator"
        /\ ~ValidatorPasses => DriverCalls = <<>>

\* C4: once getResolvers() has returned the map, every key the caller
\* registered a handler under with add() dispatches to the caller's last
\* handler for that key, whenever the add() took place.
C4_ManualWins ==
    returned =>
        \A key \in ManualKeys :
            manual[key] # "" =>
                /\ Has(resolvers, key[1])
                /\ Has(Get(resolvers, key[1]), key[2])
                /\ Get(Get(resolvers, key[1]), key[2])
                       = Wrapped(key[1], key[2], UserHandler(manual[key]))

\* The caller's own filter clauses, parsed for table tablename
CallerConds(tablename) ==
    IF ArgTruthy(inv.args.filter)
    THEN FilterArg(parseFilterExpression(inv.args.filter.str, tablename)).conds
    ELSE <<>>

\* C7: the resolver of a foreign-key column returns null without a driver call
\* when the parent's local value is absent (null or undefined); for every
\* other value, 0 and the empty string included, it makes exactly one firstOf
\* call on the foreign table, filtered by the caller's clauses followed by
\* the clause foreignColumn # value.
C7_ForeignResolver ==
    (inv.active /\ inv.fn.kind = "foreign" /\ ~inv.root.null
       /\ ~parseArgsCommon(inv.fn.ftablename, inv.args).threw) =>
        IF Prop(inv.root.fields, inv.fn.column).t \in {"null", "undefined"}
        THEN ret = NullV /\ calls = <<>>
        ELSE /\ Len(calls) = 1
             /\ calls[1].fn = "firstOf"
             /\ calls[1].a1 = inv.fn.ftablename
             /\ calls[1].args.filter =
                    Parsed(inv.fn.ftablename,
                           Append(CallerConds(inv.fn.ftablename),
                                  << Str(<<"#">>), Str(<<inv.fn.fcolumnname>>),
                                     Str(ToStr(Prop(inv.root.fields, inv.fn.column))) >>))
             /\ ret = calls[1].out

\* The id putItem is to re-fetch by: the caller's when the input carries one
ClaimedId(given, assigned) ==
    IF given.t \in {"undefined", "null"} THEN assigned ELSE given

\* C9: putItem makes one driver putItem call, then one firstOf call on the
\* same table filtered by ['=', pk, id], and returns the firstOf result; id
\* is input[pk] for every value the caller supplied (0 included) and the
\* driver's assigned id only when the input carried none.
C9_PutItemRefetches ==
    (inv.active /\ inv.fn.kind = "add" /\ inv.fn.cb.h = "putItem" /\ ValidatorPasses) =>
        /\ Len(DriverCalls) = 2
        /\ DriverCalls[1].fn = "putItem"
        /\ DriverCalls[1].a1 = inv.fn.cb.table
        /\ DriverCalls[1].args = inv.args
        /\ DriverCalls[2].fn = "firstOf"
        /\ DriverCalls[2].a1 = inv.fn.cb.table
        /\ DriverCalls[2].args.filter =
               Parsed(inv.fn.cb.table,
                      << << Str(<<"=">>),
                            Str(<<getPrimaryKeyFromSchema(dbSchema, inv.fn.cb.table)>>),
                            ClaimedId(Prop(inv.args.input,
                                           getPrimaryKeyFromSchema(dbSchema, inv.fn.cb.table)),
                                      inv.assigned) >> >>)
        /\ ret = DriverCalls[2].out

----------------------------------------------------------------------------
(* C3: the compiler's field names against the resolver map's keys *)

HasResolver(namespace, name) ==
    Has(resolvers, namespace) /\ Has(Get(resolvers, namespace), name)

\* The names of the fields of a type of the model
FieldsOf(type) ==
    IF Has(schema.type, type)
    THEN {Get(schema.type, type)[i].k : i \in 1..Len(Get(schema.type, type))}
    ELSE {}

ColumnNames(table) == {table.columns[i].name : i \in 1..Len(table.columns)}

\* Every Query, Mutation and relation field of the model has a resolver
\* under the same (namespace, field) key
NamesAgree ==
    /\ \A f \in FieldsOf("Query") : HasResolver("Query", f)
    /\ \A f \in FieldsOf("Mutation") : HasResolver("Mutation", f)
    /\ \A i \in 1..Len(dbSchema) :
          \A f \in FieldsOf(toCamelCase(dbSchema[i].name)) \ ColumnNames(dbSchema[i]) :
              HasResolver(toCamelCase(dbSchema[i].name), f)

\* C3: when getResolvers() returns its map for a model that full builds
\* generated, every generated Query and Mutation field (GetPage, GetFirst,
\* PutItem) and every generated relation field of a table's type has a
\* resolver registered under the identical (namespace, field) key.
C3_NamesAgree ==
    [][(GetResolversWith(TRUE) /\ phase = "fullBuilt") => NamesAgree']_vars

----------------------------------------------------------------------------
(* C8: what a build leaves in the model *)

\* The tables the build that ran last processed
Processed ==
    {i \in 1..Len(dbSchema) :
        \/ last.op = "async_buildSchema"
        \/ last.op = "buildSchemaByTable" /\ last.table = dbSchema[i].name}

Occurrences(obj, key) == Cardinality({i \in 1..Len(obj) : obj[i].k = key})

ParamSet(params) == {<<params[i].k, params[i].v>> : i \in 1..Len(params)}

ClaimedStandardParams ==
    { <<"filter", "String">>, <<"pagination", "String">>, <<"where", "Condition">>,
      <<"_debug", "Boolean">>, <<"_cache", "Boolean">> }

\* type.field exists, returns `returns` and takes exactly the parameters params
HasField(type, field, returns, params) ==
    /\ Has(schema.type, type)
    /\ Has(Get(schema.type, type), field)
    /\ Get(Get(schema.type, type), field).name = field
    /\ Get(Get(schema.type, type), field).type = returns
    /\ ParamSet(Get(Get(schema.type, type), field).params) = params
    /\ Len(Get(Get(schema.type, type), field).params) = Cardinality(params)

PageTypeNames == {toCamelCase(dbSchema[i].name) \o "Page" : i \in 1..Len(dbSchema)}

BuiltAsClaimed(table, ty) ==
    /\ Occurrences(schema.type, ty) = 1
    /\ Occurrences(schema.type, ty \o "Page") = 1
    /\ Keys(Get(schema.type, ty \o "Page")) = <<"total", "items">>
    /\ HasField(ty \o "Page", "total", Named("Int"), {})
    /\ HasField(ty \o "Page", "items", ListOf(ty), {})
    /\ Occurrences(schema.input, ty \o "Input") = 1
    /\ HasField("Query", ty \o "GetPage", Named(ty \o "Page"), ClaimedStandardParams)
    /\ HasField("Query", ty \o "GetFirst", Named(ty), ClaimedStandardParams)
    /\ HasField("Mutation", ty \o "PutItem", Named(ty),
                { <<"input", ty \o "Input!">>, <<"_debug", "Boolean">> })
    /\ table.reverse = <<>> =>
          \A i \in 1..Len(Get(schema.type, ty)) :
              Get(schema.type, ty)[i].v.type.name \notin PageTypeNames

----------------------------------------------------------------------------
(* C5, C10: the text getSDL returns *)

\* The lines that open the block of a type
HeadersOf(text, type) == {i \in 1..Len(text) : text[i] = <<"type ", type, " {">>}

\* The lines of the blocks of type `type` that define field `field`
DefinitionsOf(text, type, field) ==
    {i \in 1..Len(text) :
        /\ Len(text[i]) >= 2
        /\ text[i][1] = "  "
        /\ text[i][2] = field
        /\ \E h \in HeadersOf(text, type) :
              h < i /\ \A j \in h..i : text[j] # <<"}">>}

\* The text holds exactly one definition of type.field: the one addType gave
ShowsOnly(text, type, def) ==
    /\ Cardinality(DefinitionsOf(text, type, def.name)) = 1
    /\ \A i \in DefinitionsOf(text, type, def.name) : text[i] = FieldLine(def)

\* The getSDL call rendered the model: refresh was asked or no text was cached
Rendered == shown.refresh \/ ~shown.cached

\* C5 as claimed: after addType(type, field, returns, params) with a name that
\* collides with a generated field, the text the next getSDL call returns
\* (with or without refresh) holds exactly one definition of type.field, the
\* manual one.
C5_NextTextShowsManual ==
    (shown.valid /\ shown.inj.active /\ shown.inj.collides)
        => ShowsOnly(shown.text, shown.inj.type, shown.inj.def)

\* C5 as amended: the same of the next getSDL call that renders the model,
\* that is getSDL(true), or getSDL() when no text has been cached yet.
C5_NextRenderShowsManual ==
    (shown.valid /\ shown.inj.active /\ shown.inj.collides /\ Rendered)
        => ShowsOnly(shown.text, shown.inj.type, shown.inj.def)

\* C5's case: a text was cached, addType replaced Query.FooGetPage, and
\* getSDL(true) followed
C5_Witness ==
    /\ shown.valid
    /\ shown.refresh
    /\ shown.cached
    /\ shown.inj.active
    /\ shown.inj.collides
    /\ shown.inj.type = "Query"
    /\ Cardinality(DefinitionsOf(shown.text, "Query", "FooGetPage")) = 1

\* The line that opens the one block of a type the text holds
HeaderOf(text, type) == CHOOSE i \in HeadersOf(text, type) : TRUE

\* The names of the fields of the block that opens at line h, in order
RECURSIVE BlockFieldsFrom(_, _)
BlockFieldsFrom(text, i) ==
    IF i > Len(text) \/ text[i] = <<"}">> \/ Len(text[i]) < 2 THEN <<>>
    ELSE <<text[i][2]>> \o BlockFieldsFrom(text, i + 1)

Mappable(column) == mapDbColumnToGraphqlType(column) # ""

IsForeign(column) == column.foreign # NoForeign

ForeignName(column) == column.name \o "_" \o column.foreign.tablename

\* The field order claimed of a table's block: scalars in column order, then
\* the foreign relations, then the reverse relations
ClaimedFields(table) ==
    [i \in 1..Len(SelectSeq(table.columns, Mappable)) |->
        SelectSeq(table.columns, Mappable)[i].name]
    \o [i \in 1..Len(SelectSeq(table.columns, IsForeign)) |->
          ForeignName(SelectSeq(table.columns, IsForeign)[i])]
    \o [i \in 1..Len(table.reverse) |-> table.reverse[i].ftablename]

TypeOf(i) == toCamelCase(dbSchema[i].name)

\* Every table has its type block and its Page block, once each; the type
\* blocks are in table order and hold their fields in the claimed order
TypesInOrder(text) ==
    /\ \A i \in 1..Len(dbSchema) :
          /\ Cardinality(HeadersOf(text, TypeOf(i))) = 1
          /\ Cardinality(HeadersOf(text, TypeOf(i) \o "Page")) = 1
          /\ BlockFieldsFrom(text, HeaderOf(text, TypeOf(i)) + 1)
                = ClaimedFields(dbSchema[i])
    /\ \A i, j \in 1..Len(dbSchema) :
          i < j => HeaderOf(text, TypeOf(i)) < HeaderOf(text, TypeOf(j))

\* Every Page block comes after all table type blocks
PagesAfterAllTypes(text) ==
    \A i, j \in 1..Len(dbSchema) :
        HeaderOf(text, TypeOf(j)) < HeaderOf(text, TypeOf(i) \o "Page")

\* Every Page block is the block right after the type block of its table
PageFollowsItsType(text) ==
    \A i \in 1..Len(dbSchema) :
        /\ HeaderOf(text, TypeOf(i)) < HeaderOf(text, TypeOf(i) \o "Page")
        /\ \A k \in (HeaderOf(text, TypeOf(i)) + 1)..(HeaderOf(text, TypeOf(i) \o "Page") - 1) :
              text[k] = <<>> \/ text[k] = <<"}">> \/ text[k][1] = "  "

\* getSDL rendered a model that full builds over two or more tables made
FullBuildShown ==
    shown.valid /\ Rendered /\ phase = "fullBuilt" /\ Len(dbSchema) >= 2

\* C10 as claimed: in the text getSDL renders after a full build over two or
\* more tables, the table type blocks are in table-processing order, every
\* <Type>Page block comes after all table type blocks, and a table's block
\* lists its scalar fields in column order, then its foreign-relation
\* fields, then its reverse-relation fields.
C10_OrderAsClaimed ==
    FullBuildShown => TypesInOrder(shown.text) /\ PagesAfterAllTypes(shown.text)

\* C10 as amended: the same, except that every <Type>Page block comes right
\* after the type block of its own table, so before the type blocks of the
\* tables processed later.
C10_OrderAsBuilt ==
    FullBuildShown => TypesInOrder(shown.text) /\ PageFollowsItsType(shown.text)

\* C10's case: getSDL rendered a full build over bar and foo, in that order
C10_Witness ==
    /\ FullBuildShown
    /\ dbSchema[1].name = "bar"
    /\ HeadersOf(shown.text, "Foo") # {}
    /\ HeadersOf(shown.text, "BarPage") # {}

----------------------------------------------------------------------------
(* C11: building one table twice *)

\* C11: when buildSchemaByTable(T) has run twice with the same driver
\* metadata, on whatever model earlier builds and manual injections left, the
\* model after the second run (types, inputs, fields, definitions, key order)
\* is the model after the first, and getSDL(true) renders the same text of
\* both.
C11_BuildTwiceIsBuildOnce ==
    before.repeat =>
        /\ schema = before.schema
        /\ TrimText(getSDL(schema, sdl, TRUE)) = TrimText(getSDL(before.schema, sdl, TRUE))

\* C11's case: the second of two builds of table foo, on a model that holds
\* a manually injected field and the types of another table
C11_Witness ==
    /\ before.repeat
    /\ last = [op |-> "buildSchemaByTable", table |-> "foo"]
    /\ injected > 0
    /\ Has(schema.type, "Bar")
    /\ Has(Get(schema.type, "Foo"), "fullname")

----------------------------------------------------------------------------
(* C12: a column whose type mapping throws *)

FailsMapping(table) == \E k \in 1..Len(table.columns) : ~Mappable(table.columns[k])

HasInputField(input, field, type) ==
    /\ Has(schema.input, input)
    /\ Has(Get(schema.input, input), field)
    /\ Get(Get(schema.input, input), field) = type

\* Every mappable column has its scalar field in the type and in the input,
\* and a column whose mapping throws has a field in neither
ColumnsAsClaimed(table, ty) ==
    /\ Has(schema.type, ty)
    /\ Has(schema.input, ty \o "Input")
    /\ \A k \in 1..Len(table.columns) :
          IF Mappable(table.columns[k])
          THEN /\ HasField(ty, table.columns[k].name,
                           Named(mapDbColumnToGraphqlType(table.columns[k])), {})
               /\ HasInputField(ty \o "Input", table.columns[k].name,
                                mapDbColumnToGraphqlType(table.columns[k]))
          ELSE /\ ~Has(Get(schema.type, ty), table.columns[k].name)
               /\ ~Has(Get(schema.input, ty \o "Input"), table.columns[k].name)

\* What the passes add after the scalar fields is there
RestAsClaimed(table, ty) ==
    /\ \A k \in 1..Len(table.columns) :
          IsForeign(table.columns[k]) =>
              HasField(ty, ForeignName(table.columns[k]),
                       Named(toCamelCase(table.columns[k].foreign.tablename)), {})
    /\ \A k \in 1..Len(table.reverse) :
          HasField(ty, table.reverse[k].ftablename,
                   Named(toCamelCase(table.reverse[k].ftablename) \o "Page"),
                   ClaimedStandardParams)
    /\ Has(schema.type, ty \o "Page")
    /\ HasField("Query", ty \o "GetPage", Named(ty \o "Page"), ClaimedStandardParams)
    /\ HasField("Query", ty \o "GetFirst", Named(ty), ClaimedStandardParams)
    /\ Has(schema.type, "Mutation")
    /\ Has(Get(schema.type, "Mutation"), ty \o "PutItem")

\* C12: when the column-type mapping throws for a column of a table a build
\* processes, the build still completes: every other column of the table
\* has its scalar field in the type and in <Type>Input, the failing column
\* has a field in neither, and the remaining passes of the table and the
\* other tables of the build are processed.
C12_MappingFailureRecovered ==
    (\E i \in Processed : FailsMapping(dbSchema[i])) =>
        \A j \in Processed :
            /\ ColumnsAsClaimed(dbSchema[j], TypeOf(j))
            /\ RestAsClaimed(dbSchema[j], TypeOf(j))

\* C12's case: the first build of a new compiler, over tree_node (whose
\* column shape cannot be mapped) and then foo
C12_Witness ==
    /\ last.op = "async_buildSchema"
    /\ phase = "fullBuilt"
    /\ Len(dbSchema) = 2
    /\ dbSchema[1].name = "tree_node"
    /\ FailsMapping(dbSchema[1])
    /\ Has(Get(schema.type, "TreeNode"), "parent_id")
    /\ Has(schema.type, "Foo")

----------------------------------------------------------------------------
(* C13: the synchronous full build *)

\* The keys of an object with, for each, the set of its fields
Entries(obj) ==
    { <<obj[i].k, {<<obj[i].v[j].k, obj[i].v[j].v>> : j \in 1..Len(obj[i].v)}>> :
        i \in 1..Len(obj) }

\* The same types, inputs and fields, in whatever order
SameModel(m, n) ==
    /\ Entries(m.type) = Entries(n.type)
    /\ Entries(m.input) = Entries(n.input)

InputHeadersOf(text, input) == {i \in 1..Len(text) : text[i] = <<"input ", input, " {">>}

\* The text holds the blocks of every table: its type, its Page type, its input
EveryTableShown(text) ==
    \A i \in 1..Len(dbSchema) :
        /\ HeadersOf(text, TypeOf(i)) # {}
        /\ HeadersOf(text, TypeOf(i) \o "Page") # {}
        /\ InputHeadersOf(text, TypeOf(i) \o "Input") # {}

\* buildSchema() has returned and nothing has run since
JustReturned == last.op = "buildSchema"

\* A getSDL call started right after buildSchema() returned has rendered its text
RenderedRightAfter == render.done /\ render.immediate /\ shown.valid /\ Rendered

\* C13: when buildSchema() returns, all passes have been applied for every
\* table: the model has the same types, inputs and fields as the model an
\* awaited async_buildSchema() produces from the same metadata, and a getSDL
\* call started immediately afterwards renders every table's blocks.
C13_SyncBuildComplete ==
    /\ JustReturned => SameModel(schema, async_buildSchema(EmptySchema, dbSchema))
    /\ RenderedRightAfter => EveryTableShown(shown.text)

====
